---- MODULE Spec2Model ----
(***************************************************************************)
(* The coupled base/fiber dynamics of the K=4 resonance scripts.           *)
(*                                                                         *)
(* A trajectory is a pair (w, n): the base w is driven by the 3x+1 rule    *)
(* with a carry coming from the fiber, the fiber n lives in Z_p.  The      *)
(* scripts run this kernel over ensembles (numpy arrays with boolean      *)
(* masks) and over single trajectories (plain Python integers).            *)
(*                                                                         *)
(* The scripts fix p = 1,000,000,007.  The modulus is a state variable     *)
(* here, drawn from the primes up to MaxPrime, so that the field can be    *)
(* enumerated.  The numpy arrays are int64; with k_val < p and n < p every *)
(* product is below p*p < 2^63, so no product wraps and unbounded integers *)
(* model them.                                                             *)
(***************************************************************************)
EXTENDS Integers, Sequences, FiniteSets, TLC

\* ---------------------------------------------------------------- bounds
MaxPrime == 11      \* the modulus ranges over the primes 3..MaxPrime
MaxK == 6           \* k_val ranges over 1..MaxK
BATCH_SIZE == 2     \* ensemble size (100_000 in the scripts)
TEST_STEPS == 7     \* ensemble iterations (60 / 200 in the scripts)
MAX_STEPS == 7      \* iterations of a single trajectory (100 in the script)

\* ------------------------------------------------------------- variables
VARIABLES
    k_val,          \* the coupling factor K
    PRIME_MOD,      \* the modulus p
    n_init,         \* the initial fibers drawn by np.random.randint
    pcP, stepP, wP, nP, alive_maskP, rateP,   \* verify_window_persistence
    pcI, stepI, wI, nI, alive_maskI, rateI,   \* verify_window_invariance
    results,        \* analyze_trajectory results, one per initial fiber
    traj,           \* one run of analyze_trajectory, iteration by iteration
    obs,            \* verify_observation_2_k_neq_4_extinction
    boundary,       \* verify_boundary_points
    regional,       \* verify_regional_coverage
    tvp,            \* test_transient_vs_persistent
    cycle,          \* analyze_cycle_structure
    curve,          \* generate_survival_curve
    order           \* analyze_return_map_order

persVars == <<pcP, stepP, wP, nP, alive_maskP, rateP>>
invVars == <<pcI, stepI, wI, nI, alive_maskI, rateI>>
callVars == <<traj, obs, boundary, regional, tvp, cycle, curve, order>>
vars == <<k_val, PRIME_MOD, n_init, persVars, invVars, results, callVars>>

\* --------------------------------------------------------------- helpers
IsPrime(q) == q > 1 /\ \A d \in 2..(q - 1) : q % d /= 0

Primes == {q \in 3..MaxPrime : IsPrime(q)}

Min(a, b) == IF a < b THEN a ELSE b

\* a numpy array that has not been created
NoArray == <<>>

\* mutant of shl5: one doubling short
shl5_short(x, m) == (2 * ((2 * ((2 * ((2 * x) % m)) % m)) % m)) % m

\* (32 * x) % m for 0 <= x < m < 2^30: five doublings
shl5(x, m) == (2 * ((2 * ((2 * ((2 * ((2 * x) % m)) % m)) % m)) % m)) % m

\* (d * b) % m for a digit 0 <= d < 32 and 0 <= b < m < 2^30
small_mul(d, b, m) ==
    (((2 * ((((2 * ((((2 * ((((2 * (((d \div 16) % 2) * b)) % m)
                                + (((d \div 8) % 2) * b)) % m)) % m)
                    + (((d \div 4) % 2) * b)) % m)) % m)
        + (((d \div 2) % 2) * b)) % m)) % m)
     + ((d % 2) * b)) % m

\* Horner's rule over the digits i, i-1, .., 0 of a in base 32; acc is the
\* product of the higher digits by b, reduced.  Nothing is left to add once
\* acc is 0 and the remaining digits are 0.
RECURSIVE mul_loop(_, _, _, _, _)
mul_loop(a, b, m, i, acc) ==
    IF i < 0 \/ (acc = 0 /\ a % (32 ^ (i + 1)) = 0) THEN acc
    ELSE mul_loop(a, b, m, i - 1,
                  (shl5(acc, m) + small_mul((a \div (32 ^ i)) % 32, b, m)) % m)

\* (a * b) % m for 0 <= a < 2^30 and 0 <= b < m < 2^30, without a wide
\* product.
mul_mod(a, b, m) ==
    IF a <= 46340 /\ b <= 46340 THEN (a * b) % m
    ELSE mul_loop(a, b, m, 5, 0)

\* Quotient and remainder of the product a * b by m, for a >= 0 and
\* 0 <= b < m.  Python and int64 form the product itself.  The product of
\* two residues of p = 1,000,000,007 does not fit the 32-bit integers of the
\* model checker: factors above 46340 (the root of 2^31) are multiplied by
\* binary shift-and-add on a, reduced as the sum grows, so that no
\* intermediate value exceeds 2 * m.
RECURSIVE mul_divmod(_, _, _)
\* mutant of mul_divmod: the quotient is dropped
mul_divmod_noquot(a, b, m) == [q |-> 0, r |-> mul_mod(a, b, m)]

mul_divmod(a, b, m) ==
    IF a = 0 THEN [q |-> 0, r |-> 0]
    ELSE IF a <= 46340 /\ b <= 46340
    THEN [q |-> (a * b) \div m, r |-> (a * b) % m]
    ELSE LET h == mul_divmod(a \div 2, b, m)
             d == 2 * h.r
             q1 == 2 * h.q + (IF d >= m THEN 1 ELSE 0)
             r1 == IF d >= m THEN d - m ELSE d
             e == IF a % 2 = 1 THEN r1 + b ELSE r1
         IN  [q |-> q1 + (IF e >= m THEN 1 ELSE 0),
              r |-> IF e >= m THEN e - m ELSE e]

\* The loop of modular exponentiation by squaring, over the bits of e from
\* the lowest: result * base^e modulo m.  Zero absorbs: once result or base
\* is 0 the product is 0.
RECURSIVE pow_loop(_, _, _, _)
pow_loop(base, e, m, result) ==
    IF e = 0 THEN result
    ELSE IF result = 0 \/ base = 0 THEN 0
    ELSE pow_loop(mul_mod(base, base, m), e \div 2, m,
                  IF e % 2 = 1 THEN mul_mod(result, base, m) ELSE result)

\* Python's pow(b, e, m) for e >= 0.  The exponent is cut into digits of ten
\* bits: b^e = (b^(e div 1024))^1024 * b^(e mod 1024).
RECURSIVE pow(_, _, _)
pow(b, e, m) ==
    IF e < 1024 THEN pow_loop(b % m, e, m, 1 % m)
    ELSE mul_mod(pow_loop(pow(b, e \div 1024, m), 1024, m, 1 % m),
                 pow_loop(b % m, e % 1024, m, 1 % m), m)

\* Python's a // b for b /= 0: the floor of the quotient, whatever the signs.
floordiv(a, b) == IF b > 0 THEN a \div b ELSE (0 - a) \div (0 - b)

\* mutant of randint: the upper end taken as inclusive
randint_inclusive(low, high) == low..high

\* np.random.randint(low, high): the values that can be drawn, high excluded.
randint(low, high) == low..(high - 1)

\* mutant of limit: the non-strict bound p // K
limit_nonstrict == PRIME_MOD \div k_val

\* limit = (PRIME_MOD - 1) // k_val
limit == floordiv(PRIME_MOD - 1, k_val)

\* mutant of inv2: exponent p-1 instead of p-2
inv2_exponent_off == pow(2, PRIME_MOD - 1, PRIME_MOD)

inv2 == pow(2, PRIME_MOD - 2, PRIME_MOD)

\* mutant of inv4: exponent p-1 instead of p-2
inv4_exponent_off == pow(4, PRIME_MOD - 1, PRIME_MOD)

inv4 == pow(4, PRIME_MOD - 2, PRIME_MOD)

\* lambda_val = (k * inv4) % PRIME_MOD, the multiplier of one full cycle
lambda_val(k) == (k * inv4) % PRIME_MOD

\* mutant of return_map: one halving instead of two
return_map_one_halving(k, n) ==
    mul_mod(mul_mod(n, k, PRIME_MOD), inv2, PRIME_MOD)

\* the return map R_K(n) = (n * K * inv4) % PRIME_MOD; int64 forms the
\* product n * K * inv4 itself, here each factor is multiplied in reduced
return_map(k, n) == mul_mod(mul_mod(n, k, PRIME_MOD), inv4, PRIME_MOD)

\* ------------------------------------------------------------ the kernel
\* mutant of carry: the product is reduced before the division
carry_reduced(k, n) == ((k * n) % PRIME_MOD) \div PRIME_MOD

\* carry = (k_val * n) // PRIME_MOD, from the unreduced product
carry(k, n) == mul_divmod(k, n, PRIME_MOD).q

\* mutant of odd_w: the carry is not added to the base
odd_w_nocarry(w, c) == 3 * w + 1

\* odd step: w -> 3w + 1 + c, n -> Kn mod p
odd_w(w, c) == 3 * w + 1 + c

\* mutant of odd_n: the product is not reduced
odd_n_unreduced(k, n) == k * n

odd_n(k, n) == mul_divmod(k, n, PRIME_MOD).r

\* mutant of even_n: integer halving instead of the modular inverse
even_n_floor(n) == n \div 2

\* even step: w -> w // 2, n -> n * inv2 mod p
even_w(w) == w \div 2

even_n(n) == mul_mod(n, inv2, PRIME_MOD)

\* np.isin(w, [1, 2, 4])
\* mutant of in_cycle: base 5 passes for a base of the cycle
in_cycle_with_5(w) == w \in {1, 2, 4, 5}

in_cycle(w) == w \in {1, 2, 4}

\* mutant of even_fiber: halving by (n + p) // 2 whatever the parity of n
even_fiber_lift(n, i2) == (n + PRIME_MOD) \div 2

\* n = (n * inv2) % PRIME_MOD with the inv2 the function computed on entry
even_fiber(n, i2) == mul_mod(n, i2, PRIME_MOD)

\* 100 * np.sum(alive) / BATCH_SIZE, kept as an exact fraction
survival_rate(alive) ==
    [num |-> 100 * Cardinality({i \in DOMAIN alive : alive[i]}),
     den |-> BATCH_SIZE]

Members == 1..BATCH_SIZE

\* ------------------------------------------- verify_window_persistence
\* mutant of is_oddP: the alive mask is left out
is_oddP_unmasked(i) == wP[i] % 2 /= 0

is_oddP(i) == (wP[i] % 2 /= 0) /\ alive_maskP[i]

is_evenP(i) == (wP[i] % 2 = 0) /\ alive_maskP[i]

\* mutant of current_in_cycleP: the test collapsed over the whole array
current_all_in_cycle(w, i) == \A j \in DOMAIN w : in_cycle(w[j])

\* np.isin(w, [1, 2, 4])[i] after the updates of this step
current_in_cycleP(w, i) == in_cycle(w[i])

\* limit = (PRIME_MOD - 1) // k_val with k_val = 0: ZeroDivisionError leaves
\* the function before anything else is done
PersistenceRaise ==
    /\ pcP = "start"
    /\ k_val = 0
    /\ pcP' = "raised"
    /\ UNCHANGED <<k_val, PRIME_MOD, n_init, stepP, wP, nP, alive_maskP, rateP,
                   invVars, results, callVars>>

PersistenceClosed ==
    /\ pcP = "start"
    /\ k_val /= 0
    /\ limit < 1
    /\ pcP' = "returned"
    /\ rateP' = [num |-> 0, den |-> 1]
    /\ UNCHANGED <<k_val, PRIME_MOD, n_init, stepP, wP, nP, alive_maskP,
                   invVars, results, callVars>>

PersistenceStart ==
    /\ pcP = "start"
    /\ k_val /= 0
    /\ ~(limit < 1)
    /\ nP' = n_init
    /\ wP' = [i \in Members |-> 1]
    /\ alive_maskP' = [i \in Members |-> TRUE]
    /\ stepP' = 0
    /\ pcP' = "loop"
    /\ UNCHANGED <<k_val, PRIME_MOD, n_init, rateP, invVars, results, callVars>>

PersistenceStep ==
    /\ pcP = "loop"
    /\ stepP < TEST_STEPS
    /\ wP' = [i \in Members |->
                IF is_evenP(i) THEN even_w(wP[i])
                ELSE IF is_oddP(i) THEN odd_w(wP[i], carry(k_val, nP[i]))
                ELSE wP[i]]
    /\ nP' = [i \in Members |->
                IF is_evenP(i) THEN even_n(nP[i])
                ELSE IF is_oddP(i) THEN odd_n(k_val, nP[i])
                ELSE nP[i]]
    /\ alive_maskP' = [i \in Members |->
                alive_maskP[i] /\ current_in_cycleP(wP', i)]
    /\ stepP' = stepP + 1
    /\ UNCHANGED <<k_val, PRIME_MOD, n_init, pcP, rateP, invVars, results, callVars>>

PersistenceReturn ==
    /\ pcP = "loop"
    /\ stepP = TEST_STEPS
    /\ rateP' = survival_rate(alive_maskP)
    /\ pcP' = "returned"
    /\ UNCHANGED <<k_val, PRIME_MOD, n_init, stepP, wP, nP, alive_maskP,
                   invVars, results, callVars>>

\* -------------------------------------------- verify_window_invariance
\* w[~alive_mask] = 2: the base the step reads for member i
\* mutant of clampedI: the dead members are not clamped
clampedI_unclamped(i) == wI[i]

clampedI(i) == IF ~alive_maskI[i] THEN 2 ELSE wI[i]

is_oddI(i) == clampedI(i) % 2 /= 0

is_evenI(i) == ~is_oddI(i)

\* mutant of alive_updateI: the mask is overwritten instead of and-ed
alive_overwrite(a, in_loop) == in_loop

\* alive_mask &= current_in_loop, for member i
alive_updateI(a, in_loop) == a /\ in_loop

\* limit = (PRIME_MOD - 1) // k_val with k_val = 0: ZeroDivisionError leaves
\* the function before anything else is done
InvarianceRaise ==
    /\ pcI = "start"
    /\ k_val = 0
    /\ pcI' = "raised"
    /\ UNCHANGED <<k_val, PRIME_MOD, n_init, stepI, wI, nI, alive_maskI, rateI,
                   persVars, results, callVars>>

InvarianceClosed ==
    /\ pcI = "start"
    /\ k_val /= 0
    /\ limit < 1
    /\ pcI' = "returned"
    /\ rateI' = [num |-> 0, den |-> 1]
    /\ UNCHANGED <<k_val, PRIME_MOD, n_init, stepI, wI, nI, alive_maskI,
                   persVars, results, callVars>>

InvarianceStart ==
    /\ pcI = "start"
    /\ k_val /= 0
    /\ ~(limit < 1)
    /\ nI' = n_init
    /\ wI' = [i \in Members |-> 1]
    /\ alive_maskI' = [i \in Members |-> TRUE]
    /\ stepI' = 0
    /\ pcI' = "loop"
    /\ UNCHANGED <<k_val, PRIME_MOD, n_init, rateI, persVars, results, callVars>>

InvarianceStep ==
    /\ pcI = "loop"
    /\ stepI < TEST_STEPS
    /\ wI' = [i \in Members |->
                IF is_evenI(i) THEN even_w(clampedI(i))
                ELSE odd_w(clampedI(i), carry(k_val, nI[i]))]
    /\ nI' = [i \in Members |->
                IF is_evenI(i) THEN even_n(nI[i])
                ELSE odd_n(k_val, nI[i])]
    /\ alive_maskI' = [i \in Members |->
                alive_updateI(alive_maskI[i], in_cycle(wI'[i]))]
    /\ stepI' = stepI + 1
    /\ UNCHANGED <<k_val, PRIME_MOD, n_init, pcI, rateI, persVars, results, callVars>>

InvarianceReturn ==
    /\ pcI = "loop"
    /\ stepI = TEST_STEPS
    /\ rateI' = survival_rate(alive_maskI)
    /\ pcI' = "returned"
    /\ UNCHANGED <<k_val, PRIME_MOD, n_init, stepI, wI, nI, alive_maskI,
                   persVars, results, callVars>>

\* ----------------------------------------------------- analyze_trajectory
\* The for loop of analyze_trajectory from iteration step on; trajectory is
\* the record of lists built so far.
RECURSIVE trajectory_loop(_, _, _, _, _, _)
trajectory_loop(k, w, n, step, max_steps, trajectory) ==
    IF step >= max_steps
    THEN [trajectory |-> trajectory, survived |-> TRUE, exit_step |-> -1]
    ELSE LET even == (w % 2 = 0)
             c == IF even THEN 0 ELSE carry(k, n)
             w2 == IF even THEN even_w(w) ELSE odd_w(w, c)
             n2 == IF even THEN even_n(n) ELSE odd_n(k, n)
             t2 == [w |-> Append(trajectory.w, w2),
                    n |-> Append(trajectory.n, n2),
                    carry |-> Append(trajectory.carry, c),
                    in_window |-> Append(trajectory.in_window, n2 <= limit),
                    step_type |-> Append(trajectory.step_type,
                                         IF even THEN "even" ELSE "odd")]
         IN  IF ~in_cycle(w2)
             THEN [trajectory |-> t2, survived |-> FALSE, exit_step |-> step]
             ELSE trajectory_loop(k, w2, n2, step + 1, max_steps, t2)

analyze_trajectory(k, n0, max_steps) ==
    trajectory_loop(k, 1, n0, 0, max_steps,
                    [w |-> <<1>>, n |-> <<n0>>, carry |-> <<>>,
                     in_window |-> <<n0 <= limit>>, step_type |-> <<>>])

\* One call of analyze_trajectory, for the next initial fiber of the sample.
AnalyzeTrajectory ==
    /\ Len(results) < Len(n_init)
    /\ results' = Append(results,
                         analyze_trajectory(k_val, n_init[Len(results) + 1],
                                            MAX_STEPS))
    /\ UNCHANGED <<k_val, PRIME_MOD, n_init, persVars, invVars, callVars>>

\* ------------------------- analyze_trajectory, iteration by iteration
\* The same function as trajectory_loop, one action per iteration of its for
\* loop, for runs at the modulus of the scripts and for the step counts the
\* scripts use.
PRIME_MOD_VALUE == 1000000007

\* max_steps of a call: the bound of the model, TEST_STEPS of the verifiers
\* (60) and of the verification suite (200)
TrajectorySteps == {MAX_STEPS, 60, 200}

\* n_init of a call: every residue of a small modulus; at the modulus of the
\* scripts the ends of Z_p and of the window, the middle of the window (the
\* fiber main() passes) and two round fibers
TrajectoryFibers ==
    IF PRIME_MOD <= MaxPrime
    THEN 0..(PRIME_MOD - 1)
    ELSE {0, 1, 100000000, 250000000, limit \div 2, limit, limit + 1,
          PRIME_MOD - 1}

NoCall == [pc |-> "start"]

TrajectoryStart ==
    /\ traj.pc = "start"
    /\ \E n0 \in TrajectoryFibers, max_steps \in TrajectorySteps :
          traj' = [pc |-> "loop", n_init |-> n0, max_steps |-> max_steps,
                   limit |-> limit, inv2 |-> inv2,
                   w |-> 1, n |-> n0, step |-> 0,
                   trajectory |-> [w |-> <<1>>, n |-> <<n0>>, carry |-> <<>>,
                                   in_window |-> <<n0 <= limit>>,
                                   step_type |-> <<>>],
                   survived |-> TRUE, exit_step |-> -1]
    /\ UNCHANGED <<k_val, PRIME_MOD, n_init, persVars, invVars, results,
                   obs, boundary, regional, tvp, cycle,
                   curve, order>>

TrajectoryStep ==
    /\ traj.pc = "loop"
    /\ traj.step < traj.max_steps
    /\ LET even == (traj.w % 2 = 0)
           c == IF even THEN 0 ELSE carry(k_val, traj.n)
           w2 == IF even THEN even_w(traj.w) ELSE odd_w(traj.w, c)
           n2 == IF even THEN even_fiber(traj.n, traj.inv2)
                 ELSE odd_n(k_val, traj.n)
           t2 == [w |-> Append(traj.trajectory.w, w2),
                  n |-> Append(traj.trajectory.n, n2),
                  carry |-> Append(traj.trajectory.carry, c),
                  in_window |-> Append(traj.trajectory.in_window,
                                       n2 <= traj.limit),
                  step_type |-> Append(traj.trajectory.step_type,
                                       IF even THEN "even" ELSE "odd")]
       IN  traj' = IF ~in_cycle(w2)
                   THEN [traj EXCEPT !.pc = "returned", !.w = w2, !.n = n2,
                                     !.trajectory = t2, !.survived = FALSE,
                                     !.exit_step = traj.step]
                   ELSE [traj EXCEPT !.w = w2, !.n = n2, !.trajectory = t2,
                                     !.step = traj.step + 1]
    /\ UNCHANGED <<k_val, PRIME_MOD, n_init, persVars, invVars, results,
                   obs, boundary, regional, tvp, cycle,
                   curve, order>>

TrajectoryReturn ==
    /\ traj.pc = "loop"
    /\ traj.step >= traj.max_steps
    /\ traj' = [traj EXCEPT !.pc = "returned", !.survived = TRUE,
                            !.exit_step = -1]
    /\ UNCHANGED <<k_val, PRIME_MOD, n_init, persVars, invVars, results,
                   obs, boundary, regional, tvp, cycle,
                   curve, order>>

\* ------------------------------ verify_observation_2_k_neq_4_extinction
\* The function runs an ensemble of BATCH_SIZE trajectories for each k of
\* its list, TEST_STEPS = 200 steps each, at the modulus of the scripts.
\* k_val is the loop variable k.
OBS_TEST_STEPS == 200

\* mutant of k_values: the list with K = 4 in it
k_values_with_4 == <<2, 3, 4, 5, 6, 8, 16>>

\* k_values = [2, 3, 5, 6, 8, 16]
k_values == <<2, 3, 5, 6, 8, 16>>

\* The fibers np.random.randint(1, min(limit + 1, 10**9)) is let to draw at
\* the modulus of the scripts: the ends and the middle of the window and
\* the powers of two whose trajectories live longest.
ObservationFibers ==
    {n \in {1, 2^17, 2^22, 2^28, limit \div 2, limit} :
        n \in randint(1, Min(limit + 1, 10^9))}

\* the body of "for k in k_values" up to the step loop
ObservationSample ==
    /\ obs.pc \in {"start", "next"}
    /\ LET i2 == inv2
       IN  \E n \in [Members -> ObservationFibers] :
          obs' = [pc |-> "loop", limit |-> limit, inv2 |-> i2,
                  n |-> n, w |-> [i \in Members |-> 1],
                  alive |-> [i \in Members |-> TRUE], step |-> 0,
                  rates |-> IF obs.pc = "start" THEN <<>> ELSE obs.rates,
                  all_extinct |-> IF obs.pc = "start" THEN TRUE
                                  ELSE obs.all_extinct]
    /\ UNCHANGED <<k_val, PRIME_MOD, n_init, persVars, invVars, results,
                   traj, boundary, regional, tvp, cycle,
                   curve, order>>

ObservationStep ==
    /\ obs.pc = "loop"
    /\ obs.step < OBS_TEST_STEPS
    /\ LET is_odd(i) == (obs.w[i] % 2 /= 0) /\ obs.alive[i]
           is_even(i) == (obs.w[i] % 2 = 0) /\ obs.alive[i]
           w2 == [i \in Members |->
                    IF is_even(i) THEN even_w(obs.w[i])
                    ELSE IF is_odd(i)
                         THEN odd_w(obs.w[i], carry(k_val, obs.n[i]))
                         ELSE obs.w[i]]
           n2 == [i \in Members |->
                    IF is_even(i) THEN even_fiber(obs.n[i], obs.inv2)
                    ELSE IF is_odd(i) THEN odd_n(k_val, obs.n[i])
                         ELSE obs.n[i]]
       IN  obs' = [obs EXCEPT !.w = w2, !.n = n2,
                              !.alive = [i \in Members |->
                                            obs.alive[i] /\ in_cycle(w2[i])],
                              !.step = obs.step + 1]
    /\ UNCHANGED <<k_val, PRIME_MOD, n_init, persVars, invVars, results,
                   traj, boundary, regional, tvp, cycle,
                   curve, order>>

\* survival_rate, extinct and all_extinct of this k, then the next k or the
\* return of all_extinct.  The arrays of this k are not read again.
ObservationTally ==
    /\ obs.pc = "loop"
    /\ obs.step = OBS_TEST_STEPS
    /\ LET rate == survival_rate(obs.alive)
           extinct == (rate.num = 0)
           last == (k_val = k_values[Len(k_values)])
       IN  /\ obs' = [obs EXCEPT !.pc = IF last THEN "returned" ELSE "next",
                                 !.n = NoArray, !.w = NoArray,
                                 !.alive = NoArray,
                                 !.rates = Append(obs.rates, rate),
                                 !.all_extinct = obs.all_extinct /\ extinct]
           /\ k_val' = IF last THEN k_val
                       ELSE k_values[1 + CHOOSE j \in DOMAIN k_values :
                                            k_values[j] = k_val]
    /\ UNCHANGED <<PRIME_MOD, n_init, persVars, invVars, results,
                   traj, boundary, regional, tvp, cycle,
                   curve, order>>

\* ----------------------------------------- test_transient_vs_persistent
\* np.sum of a boolean array
count_true(mask) == Cardinality({i \in DOMAIN mask : mask[i]})

\* np.sum of the first i entries of an integer array
RECURSIVE sum_to(_, _)
sum_to(s, i) == IF i = 0 THEN 0 ELSE s[i] + sum_to(s, i - 1)

\* np.mean, as an exact fraction
np_mean(s) == [num |-> sum_to(s, Len(s)), den |-> Len(s)]

\* np.max
np_max(s) == CHOOSE v \in {s[i] : i \in DOMAIN s} : \A i \in DOMAIN s : s[i] <= v

\* the entries of s in ascending order
sorted(s) ==
    CHOOSE t \in [DOMAIN s -> {s[i] : i \in DOMAIN s}] :
        /\ \A i, j \in DOMAIN s : i < j => t[i] <= t[j]
        /\ \A v \in {s[i] : i \in DOMAIN s} :
              Cardinality({i \in DOMAIN s : t[i] = v})
                  = Cardinality({i \in DOMAIN s : s[i] = v})

\* np.median, as an exact fraction: the middle entry or the mean of the two
\* middle entries of the sorted array
np_median(s) ==
    LET t == sorted(s)
        m == Len(s)
    IN  IF m % 2 = 1 THEN [num |-> 2 * t[(m + 1) \div 2], den |-> 2]
        ELSE [num |-> t[m \div 2] + t[m \div 2 + 1], den |-> 2]

Max(a, b) == IF a > b THEN a ELSE b

\* mutant of lifetime_update: the alive mask is left out
lifetime_update_all(l, a, step) == step + 1

\* lifetimes[alive] = step + 1, for one member
lifetime_update(l, a, step) == IF a THEN step + 1 ELSE l

\* np.random.randint(1, min(limit + 1, 1000000)) with an empty range:
\* ValueError
TransientRaise ==
    /\ tvp.pc = "start"
    /\ randint(1, Min(limit + 1, 1000000)) = {}
    /\ tvp' = [pc |-> "raised"]
    /\ UNCHANGED <<k_val, PRIME_MOD, n_init, persVars, invVars, results,
                   traj, obs, boundary, regional, cycle,
                   curve, order>>

TransientStart ==
    /\ tvp.pc = "start"
    /\ randint(1, Min(limit + 1, 1000000)) /= {}
    /\ \E num_particles \in 1..BATCH_SIZE :
       \E n \in [1..num_particles -> randint(1, Min(limit + 1, 1000000))] :
          tvp' = [pc |-> "loop", limit |-> limit, inv2 |-> inv2,
                  n |-> n, w |-> [i \in 1..num_particles |-> 1],
                  alive |-> [i \in 1..num_particles |-> TRUE],
                  lifetimes |-> [i \in 1..num_particles |-> 0],
                  reached_lower_boundary |->
                      [i \in 1..num_particles |-> FALSE],
                  reached_upper_boundary |->
                      [i \in 1..num_particles |-> FALSE],
                  step |-> 0, result |-> <<>>]
    /\ UNCHANGED <<k_val, PRIME_MOD, n_init, persVars, invVars, results,
                   traj, obs, boundary, regional, cycle,
                   curve, order>>

\* One iteration of the loop.  The thresholds limit * 0.1 and limit * 0.9
\* are compared in tenths: n <= limit * 0.1 iff 10 n <= limit.
TransientStep ==
    /\ tvp.pc = "loop"
    /\ tvp.step < TEST_STEPS
    /\ LET P == DOMAIN tvp.w
           at_lower(i) == (10 * tvp.n[i] <= tvp.limit) /\ tvp.alive[i]
           at_upper(i) == /\ 10 * tvp.n[i] >= 9 * tvp.limit
                          /\ tvp.n[i] <= tvp.limit
                          /\ tvp.alive[i]
           is_odd(i) == (tvp.w[i] % 2 /= 0) /\ tvp.alive[i]
           is_even(i) == (tvp.w[i] % 2 = 0) /\ tvp.alive[i]
           w2 == [i \in P |->
                    IF is_even(i) THEN even_w(tvp.w[i])
                    ELSE IF is_odd(i)
                         THEN odd_w(tvp.w[i], carry(k_val, tvp.n[i]))
                         ELSE tvp.w[i]]
           n2 == [i \in P |->
                    IF is_even(i) THEN even_fiber(tvp.n[i], tvp.inv2)
                    ELSE IF is_odd(i) THEN odd_n(k_val, tvp.n[i])
                         ELSE tvp.n[i]]
       IN  tvp' = [tvp EXCEPT
                     !.lifetimes =
                         [i \in P |-> lifetime_update(tvp.lifetimes[i],
                                                      tvp.alive[i], tvp.step)],
                     !.reached_lower_boundary =
                         [i \in P |->
                             tvp.reached_lower_boundary[i] \/ at_lower(i)],
                     !.reached_upper_boundary =
                         [i \in P |->
                             tvp.reached_upper_boundary[i] \/ at_upper(i)],
                     !.w = w2, !.n = n2,
                     !.alive = [i \in P |-> tvp.alive[i] /\ in_cycle(w2[i])],
                     !.step = tvp.step + 1]
    /\ UNCHANGED <<k_val, PRIME_MOD, n_init, persVars, invVars, results,
                   traj, obs, boundary, regional, cycle,
                   curve, order>>

\* the dictionary returned after the loop; the arrays stay as they were
TransientReturn ==
    /\ tvp.pc = "loop"
    /\ tvp.step = TEST_STEPS
    /\ LET P == DOMAIN tvp.w
           num_particles == Len(tvp.w)
           persistent == [i \in P |-> tvp.lifetimes[i] >= TEST_STEPS - 1]
           lower == [i \in P |-> tvp.reached_lower_boundary[i] /\ persistent[i]]
           upper == [i \in P |-> tvp.reached_upper_boundary[i] /\ persistent[i]]
       IN  tvp' = [tvp EXCEPT
                     !.pc = "returned",
                     !.result =
                       [mean_lifetime |-> np_mean(tvp.lifetimes),
                        median_lifetime |-> np_median(tvp.lifetimes),
                        max_lifetime |-> np_max(tvp.lifetimes),
                        persistent_pct |->
                            [num |-> 100 * count_true(persistent),
                             den |-> num_particles],
                        reached_lower_boundary_pct |->
                            [num |-> 100 * count_true(tvp.reached_lower_boundary),
                             den |-> num_particles],
                        reached_upper_boundary_pct |->
                            [num |-> 100 * count_true(tvp.reached_upper_boundary),
                             den |-> num_particles],
                        persisted_at_lower |->
                            [num |-> 100 * count_true(lower),
                             den |-> Max(1, count_true(tvp.reached_lower_boundary))],
                        persisted_at_upper |->
                            [num |-> 100 * count_true(upper),
                             den |-> Max(1, count_true(tvp.reached_upper_boundary))]]]
    /\ UNCHANGED <<k_val, PRIME_MOD, n_init, persVars, invVars, results,
                   traj, obs, boundary, regional, cycle,
                   curve, order>>

\* ------------------------------------------------ analyze_cycle_structure
\* for step in range(200)
CYCLE_STEPS == 200

CycleRaise ==
    /\ cycle.pc = "start"
    /\ randint(1, Min(limit + 1, 1000000)) = {}
    /\ cycle' = [pc |-> "raised"]
    /\ UNCHANGED <<k_val, PRIME_MOD, n_init, persVars, invVars, results,
                   traj, obs, boundary, regional, tvp,
                   curve, order>>

\* the samples are drawn and the first of them is set up
CycleStart ==
    /\ cycle.pc = "start"
    /\ randint(1, Min(limit + 1, 1000000)) /= {}
    /\ \E num_samples \in 1..BATCH_SIZE :
       \E n_samples \in [1..num_samples -> randint(1, Min(limit + 1, 1000000))] :
          cycle' = [pc |-> "loop", limit |-> limit, inv2 |-> inv2,
                    n_samples |-> n_samples, lifetimes |-> <<>>,
                    w |-> 1, n |-> n_samples[1], lifetime |-> 0, step |-> 0,
                    result |-> <<>>]
    /\ UNCHANGED <<k_val, PRIME_MOD, n_init, persVars, invVars, results,
                   traj, obs, boundary, regional, tvp,
                   curve, order>>

\* one iteration of the inner loop that does not break
CycleStep ==
    /\ cycle.pc = "loop"
    /\ cycle.step < CYCLE_STEPS
    /\ in_cycle(cycle.w)
    /\ LET even == (cycle.w % 2 = 0)
       IN  cycle' = [cycle EXCEPT
                       !.lifetime = cycle.step,
                       !.w = IF even THEN even_w(cycle.w)
                             ELSE odd_w(cycle.w, carry(k_val, cycle.n)),
                       !.n = IF even THEN even_fiber(cycle.n, cycle.inv2)
                             ELSE odd_n(k_val, cycle.n),
                       !.step = cycle.step + 1]
    /\ UNCHANGED <<k_val, PRIME_MOD, n_init, persVars, invVars, results,
                   traj, obs, boundary, regional, tvp,
                   curve, order>>

\* the inner loop ends, by the break or by exhaustion: the lifetime is
\* appended and the next sample, if any, is set up
CycleAppend ==
    /\ cycle.pc = "loop"
    /\ cycle.step = CYCLE_STEPS \/ ~in_cycle(cycle.w)
    /\ LET lifetimes == Append(cycle.lifetimes, cycle.lifetime)
           more == Len(lifetimes) < Len(cycle.n_samples)
       IN  cycle' = [cycle EXCEPT
                       !.lifetimes = lifetimes,
                       !.pc = IF more THEN "loop" ELSE "done",
                       !.w = IF more THEN 1 ELSE cycle.w,
                       !.n = IF more THEN cycle.n_samples[Len(lifetimes) + 1]
                             ELSE cycle.n,
                       !.lifetime = IF more THEN 0 ELSE cycle.lifetime,
                       !.step = IF more THEN 0 ELSE cycle.step]
    /\ UNCHANGED <<k_val, PRIME_MOD, n_init, persVars, invVars, results,
                   traj, obs, boundary, regional, tvp,
                   curve, order>>

CycleReturn ==
    /\ cycle.pc = "done"
    /\ LET num_samples == Len(cycle.n_samples)
           immortal == [i \in DOMAIN cycle.lifetimes |->
                           cycle.lifetimes[i] >= 199]
       IN  cycle' = [cycle EXCEPT
                       !.pc = "returned",
                       !.result =
                         [mean_lifetime |-> np_mean(cycle.lifetimes),
                          median_lifetime |-> np_median(cycle.lifetimes),
                          max_lifetime |-> np_max(cycle.lifetimes),
                          immortal_count |-> count_true(immortal),
                          immortal_pct |->
                              [num |-> 100 * count_true(immortal),
                               den |-> num_samples]]]
    /\ UNCHANGED <<k_val, PRIME_MOD, n_init, persVars, invVars, results,
                   traj, obs, boundary, regional, tvp,
                   curve, order>>

\* --------------------------------------------- verify_regional_coverage
\* the numbers of regions and of samples per region a call is given
MaxRegions == 3

MaxSamples == 2

\* the largest small max_order a call of analyze_return_map_order is given
MaxOrder == 5

\* int(a / b) for a >= 0 and b > 0: the true quotient, truncated
int_truediv(a, b) == a \div b

\* start and end of region region_idx of the call r
region_start(r) == int_truediv(r.limit * r.region_idx, r.num_regions) + 1

region_end(r) == int_truediv(r.limit * (r.region_idx + 1), r.num_regions)

\* if start >= end or end > limit: continue
region_skipped(r) ==
    region_start(r) >= region_end(r) \/ region_end(r) > r.limit

\* the step loop of a region from iteration step on; e holds the arrays
\* w, n and alive
RECURSIVE regional_loop(_, _, _, _)
regional_loop(k, i2, e, step) ==
    IF step >= TEST_STEPS THEN e
    ELSE LET P == DOMAIN e.w
             is_odd(i) == (e.w[i] % 2 /= 0) /\ e.alive[i]
             is_even(i) == (e.w[i] % 2 = 0) /\ e.alive[i]
             w2 == [i \in P |->
                      IF is_even(i) THEN even_w(e.w[i])
                      ELSE IF is_odd(i) THEN odd_w(e.w[i], carry(k, e.n[i]))
                           ELSE e.w[i]]
             n2 == [i \in P |->
                      IF is_even(i) THEN even_fiber(e.n[i], i2)
                      ELSE IF is_odd(i) THEN odd_n(k, e.n[i])
                           ELSE e.n[i]]
         IN  regional_loop(k, i2,
                           [w |-> w2, n |-> n2,
                            alive |-> [i \in P |-> e.alive[i] /\ in_cycle(w2[i])]],
                           step + 1)

\* run_verification_suite calls the function after its persistence test
RegionalStart ==
    /\ regional.pc = "start"
    /\ pcP = "returned"
    /\ \E num_regions \in 1..MaxRegions :
       \E samples_per_region \in 1..MaxSamples :
          regional' = [pc |-> "region", num_regions |-> num_regions,
                       samples_per_region |-> samples_per_region,
                       limit |-> limit, inv2 |-> inv2, results |-> <<>>,
                       region_idx |-> 0, n_samples |-> <<>>,
                       w_samples |-> <<>>, alive |-> <<>>]
    /\ UNCHANGED <<k_val, PRIME_MOD, n_init, persVars, invVars, results,
                   traj, obs, boundary, tvp, cycle,
                   curve, order>>

RegionalSkip ==
    /\ regional.pc = "region"
    /\ regional.region_idx < regional.num_regions
    /\ region_skipped(regional)
    /\ regional' = [regional EXCEPT !.region_idx = regional.region_idx + 1]
    /\ UNCHANGED <<k_val, PRIME_MOD, n_init, persVars, invVars, results,
                   traj, obs, boundary, tvp, cycle,
                   curve, order>>

\* the samples of a region are drawn, with their bases and alive flags
RegionalSample ==
    /\ regional.pc = "region"
    /\ regional.region_idx < regional.num_regions
    /\ ~region_skipped(regional)
    /\ LET start == region_start(regional)
           end == region_end(regional)
           size == Min(regional.samples_per_region, end - start + 1)
       IN  \E n_samples \in [1..size -> randint(start, end + 1)] :
              regional' = [regional EXCEPT
                             !.pc = "run",
                             !.n_samples = n_samples,
                             !.w_samples = [i \in 1..size |-> 1],
                             !.alive = [i \in 1..size |-> TRUE]]
    /\ UNCHANGED <<k_val, PRIME_MOD, n_init, persVars, invVars, results,
                   traj, obs, boundary, tvp, cycle,
                   curve, order>>

\* the step loop of the region and its entry in the results
RegionalRun ==
    /\ regional.pc = "run"
    /\ LET e == regional_loop(k_val, regional.inv2,
                              [w |-> regional.w_samples,
                               n |-> regional.n_samples,
                               alive |-> regional.alive], 0)
           num_regions == regional.num_regions
           region_idx == regional.region_idx
       IN  regional' = [regional EXCEPT
                          !.pc = "region",
                          !.n_samples = e.n, !.w_samples = e.w,
                          !.alive = e.alive,
                          !.results = Append(regional.results,
                              [region |-> <<(region_idx * 100) \div num_regions,
                                            ((region_idx + 1) * 100)
                                                \div num_regions>>,
                               start |-> region_start(regional),
                               end |-> region_end(regional),
                               survival |->
                                   [num |-> 100 * count_true(e.alive),
                                    den |-> Len(regional.n_samples)]]),
                          !.region_idx = region_idx + 1]
    /\ UNCHANGED <<k_val, PRIME_MOD, n_init, persVars, invVars, results,
                   traj, obs, boundary, tvp, cycle,
                   curve, order>>

RegionalReturn ==
    /\ regional.pc = "region"
    /\ regional.region_idx = regional.num_regions
    /\ regional' = [pc |-> "returned", results |-> regional.results]
    /\ UNCHANGED <<k_val, PRIME_MOD, n_init, persVars, invVars, results,
                   traj, obs, boundary, tvp, cycle,
                   curve, order>>

\* ----------------------------------------------- verify_boundary_points
\* test_percentiles = [0.1, 1, 10, 25, 50, 75, 90, 99, 99.9], in tenths of
\* a percent
test_percentiles == <<1, 10, 100, 250, 500, 750, 900, 990, 999>>

\* int(limit * pct / 100) for pct given in tenths of a percent
int_percent(l, pm) == (l * pm) \div 1000

\* mutant of boundary_point: the two clamps are left out
boundary_point_unclamped(l, pm) == int_percent(l, pm)

\* the fiber a percentile starts from: if n < 1: n = 1; if n > limit: n = limit
boundary_point(l, pm) ==
    LET n == int_percent(l, pm)
        n1 == IF n < 1 THEN 1 ELSE n
    IN  IF n1 > l THEN l ELSE n1

\* the step loop of a percentile from iteration step on: survived
RECURSIVE boundary_loop(_, _, _, _, _)
boundary_loop(k, i2, w, n, step) ==
    IF step >= TEST_STEPS THEN TRUE
    ELSE IF ~in_cycle(w) THEN FALSE
    ELSE IF w % 2 = 0
         THEN boundary_loop(k, i2, even_w(w), even_fiber(n, i2), step + 1)
         ELSE boundary_loop(k, i2, odd_w(w, carry(k, n)), odd_n(k, n),
                            step + 1)

\* The whole call; points holds the (w, n) each percentile started from.
\* run_verification_suite calls the function after its regional test.
VerifyBoundaryPoints ==
    /\ boundary.pc = "start"
    /\ regional.pc = "returned"
    /\ boundary' =
          [pc |-> "returned",
           points |-> [j \in DOMAIN test_percentiles |->
                          [w |-> 1,
                           n |-> boundary_point(limit, test_percentiles[j])]],
           results |-> [j \in DOMAIN test_percentiles |->
                          [percentile |-> test_percentiles[j],
                           n_value |-> int_percent(limit, test_percentiles[j]),
                           survived |->
                               boundary_loop(k_val, inv2, 1,
                                             boundary_point(limit,
                                                 test_percentiles[j]), 0)]]]
    /\ UNCHANGED <<k_val, PRIME_MOD, n_init, persVars, invVars, results,
                   traj, obs, regional, tvp, cycle,
                   curve, order>>

\* ------------------------------------------------ generate_survival_curve
\* max_steps of a call: none, one return, and the bound
CurveSteps == {0, 3, MAX_STEPS}

\* the fibers np.random.randint(1, min(limit + 1, 1000000)) can draw
curve_fibers == randint(1, Min(limit + 1, 1000000))

\* the draws that are followed: all of them at a small modulus, the ends of
\* the drawn range at the modulus of the scripts
CurveDraws ==
    IF PRIME_MOD <= MaxPrime THEN curve_fibers
    ELSE {n \in {1, 999999, 1000000, limit} : n \in curve_fibers}

\* survival_rate = 100 * np.sum(alive) / num_particles
history_entry(alive, num_particles) ==
    [num |-> 100 * count_true(alive), den |-> num_particles]

\* mutant of curve_break: the loop never breaks
curve_break_never(rate) == FALSE

\* if survival_rate == 0: break
curve_break(rate) == rate.num = 0

\* np.random.randint raises ValueError on the empty range [1, 1)
CurveRaise ==
    /\ curve.pc = "start"
    /\ curve_fibers = {}
    /\ curve' = [pc |-> "raised"]
    /\ UNCHANGED <<k_val, PRIME_MOD, n_init, persVars, invVars, results,
                   traj, obs, boundary, regional, tvp, cycle, order>>

CurveStart ==
    /\ curve.pc = "start"
    /\ curve_fibers /= {}
    /\ \E num_particles \in 1..BATCH_SIZE, max_steps \in CurveSteps :
       \E n \in [1..num_particles -> CurveDraws] :
          curve' = [pc |-> "loop", max_steps |-> max_steps,
                    limit |-> limit, inv2 |-> inv2,
                    n |-> n, w |-> [i \in 1..num_particles |-> 1],
                    alive |-> [i \in 1..num_particles |-> TRUE],
                    survival_history |-> <<[num |-> 100, den |-> 1]>>,
                    step |-> 0]
    /\ UNCHANGED <<k_val, PRIME_MOD, n_init, persVars, invVars, results,
                   traj, obs, boundary, regional, tvp, cycle, order>>

\* one iteration of the loop, up to the break
CurveStep ==
    /\ curve.pc = "loop"
    /\ curve.step < curve.max_steps
    /\ LET P == DOMAIN curve.w
           is_odd(i) == (curve.w[i] % 2 /= 0) /\ curve.alive[i]
           is_even(i) == (curve.w[i] % 2 = 0) /\ curve.alive[i]
           w2 == [i \in P |->
                    IF is_even(i) THEN even_w(curve.w[i])
                    ELSE IF is_odd(i)
                         THEN odd_w(curve.w[i], carry(k_val, curve.n[i]))
                         ELSE curve.w[i]]
           n2 == [i \in P |->
                    IF is_even(i) THEN even_fiber(curve.n[i], curve.inv2)
                    ELSE IF is_odd(i) THEN odd_n(k_val, curve.n[i])
                         ELSE curve.n[i]]
           alive2 == [i \in P |-> curve.alive[i] /\ in_cycle(w2[i])]
           rate == history_entry(alive2, Len(curve.w))
       IN  curve' = [curve EXCEPT
                       !.w = w2, !.n = n2, !.alive = alive2,
                       !.survival_history = Append(curve.survival_history, rate),
                       !.pc = IF curve_break(rate) THEN "break" ELSE "loop",
                       !.step = IF curve_break(rate) THEN curve.step
                                ELSE curve.step + 1]
    /\ UNCHANGED <<k_val, PRIME_MOD, n_init, persVars, invVars, results,
                   traj, obs, boundary, regional, tvp, cycle, order>>

\* return survival_history, after the break or after max_steps iterations
CurveReturn ==
    /\ \/ curve.pc = "break"
       \/ curve.pc = "loop" /\ curve.step = curve.max_steps
    /\ curve' = [pc |-> "returned", max_steps |-> curve.max_steps,
                 limit |-> curve.limit,
                 survival_history |-> curve.survival_history]
    /\ UNCHANGED <<k_val, PRIME_MOD, n_init, persVars, invVars, results,
                   traj, obs, boundary, regional, tvp, cycle, order>>

\* ----------------------------------------------- analyze_return_map_order
\* Python's None as the result of the function: 0, which is no order
None == 0

\* max_order of a call: the small values and the default of the function
OrderBounds == (1..MaxOrder) \cup {100}

\* mutant of next_current: the power is squared
next_current_squared(current, multiplier) ==
    mul_mod(current, current, PRIME_MOD)

\* current = (current * multiplier) % PRIME_MOD
next_current(current, multiplier) == mul_mod(current, multiplier, PRIME_MOD)

\* inv4 and the multiplier are computed; a multiplier of 1 returns 1 at
\* once, otherwise the loop starts with current = multiplier at order 1
OrderStart ==
    /\ order.pc = "start"
    /\ \E max_order \in OrderBounds :
          LET multiplier == mul_mod(k_val, inv4, PRIME_MOD)
          IN  order' = IF multiplier = 1
                       THEN [pc |-> "returned", max_order |-> max_order,
                             multiplier |-> multiplier, result |-> 1]
                       ELSE [pc |-> "loop", max_order |-> max_order,
                             multiplier |-> multiplier,
                             current |-> multiplier, order |-> 1]
    /\ UNCHANGED <<k_val, PRIME_MOD, n_init, persVars, invVars, results,
                   traj, obs, boundary, regional, tvp, cycle, curve>>

\* one iteration of for order in range(1, max_order + 1)
OrderStep ==
    /\ order.pc = "loop"
    /\ order.order <= order.max_order
    /\ order' = IF order.current = 1
                THEN [pc |-> "returned", max_order |-> order.max_order,
                      multiplier |-> order.multiplier,
                      result |-> order.order]
                ELSE [order EXCEPT
                        !.current = next_current(order.current,
                                                 order.multiplier),
                        !.order = order.order + 1]
    /\ UNCHANGED <<k_val, PRIME_MOD, n_init, persVars, invVars, results,
                   traj, obs, boundary, regional, tvp, cycle, curve>>

\* return None  # Order exceeds max_order
OrderNone ==
    /\ order.pc = "loop"
    /\ order.order > order.max_order
    /\ order' = [pc |-> "returned", max_order |-> order.max_order,
                 multiplier |-> order.multiplier, result |-> None]
    /\ UNCHANGED <<k_val, PRIME_MOD, n_init, persVars, invVars, results,
                   traj, obs, boundary, regional, tvp, cycle, curve>>

\* ------------------------------------------------------------------ Init
\* no ensemble loop has started
EnsemblesIdle ==
    /\ pcP = "start" /\ stepP = 0 /\ wP = NoArray /\ nP = NoArray
    /\ alive_maskP = NoArray /\ rateP = [num |-> 0, den |-> 1]
    /\ pcI = "start" /\ stepI = 0 /\ wI = NoArray /\ nI = NoArray
    /\ alive_maskI = NoArray /\ rateI = [num |-> 0, den |-> 1]

\* no other function has been called
CallsIdle ==
    /\ traj = NoCall /\ obs = NoCall /\ boundary = NoCall
    /\ regional = NoCall /\ tvp = NoCall /\ cycle = NoCall
    /\ curve = NoCall /\ order = NoCall

Init ==
    /\ PRIME_MOD \in Primes
    /\ k_val \in 1..MaxK
    /\ n_init \in IF limit < 1
                  THEN {NoArray}
                  ELSE [Members -> randint(1, Min(limit + 1, 10^9))]
    /\ pcP = "start" /\ stepP = 0 /\ wP = NoArray /\ nP = NoArray
    /\ alive_maskP = NoArray /\ rateP = [num |-> 0, den |-> 1]
    /\ pcI = "start" /\ stepI = 0 /\ wI = NoArray /\ nI = NoArray
    /\ alive_maskI = NoArray /\ rateI = [num |-> 0, den |-> 1]
    /\ results = <<>>
    /\ CallsIdle

Next ==
    \/ PersistenceClosed
    \/ PersistenceStart
    \/ PersistenceStep
    \/ PersistenceReturn
    \/ InvarianceClosed
    \/ InvarianceStart
    \/ InvarianceStep
    \/ InvarianceReturn
    \/ AnalyzeTrajectory

Spec == Init /\ [][Next]_vars

\* ---------------------------------------- single trajectories, any fiber
\* analyze_trajectory called with a fiber and a step count of the caller's
\* choice, at a small modulus and at the modulus of the scripts.
InitT ==
    /\ PRIME_MOD \in Primes \cup {PRIME_MOD_VALUE}
    /\ k_val \in 1..MaxK
    /\ n_init = NoArray
    /\ EnsemblesIdle
    /\ results = <<>>
    /\ CallsIdle

NextT ==
    \/ TrajectoryStart
    \/ TrajectoryStep
    \/ TrajectoryReturn

SpecT == InitT /\ [][NextT]_vars

\* --------------------------------------- extinction for K /= 4, 200 steps
InitO ==
    /\ PRIME_MOD = PRIME_MOD_VALUE
    /\ k_val = k_values[1]
    /\ n_init = NoArray
    /\ EnsemblesIdle
    /\ results = <<>>
    /\ CallsIdle

NextO ==
    \/ ObservationSample
    \/ ObservationStep
    \/ ObservationTally

SpecO == InitO /\ [][NextO]_vars

\* --------------------------- the ensemble functions called with k_val <= 0
\* With k_val <= 0 the window test of both functions is met or the division
\* raises, so that nothing is drawn.
InitV ==
    /\ PRIME_MOD \in Primes \cup {PRIME_MOD_VALUE}
    /\ k_val \in (0 - MaxK)..0
    /\ n_init = NoArray
    /\ EnsemblesIdle
    /\ results = <<>>
    /\ CallsIdle

NextV ==
    \/ PersistenceRaise
    \/ PersistenceClosed
    \/ InvarianceRaise
    \/ InvarianceClosed

SpecV == InitV /\ [][NextV]_vars

\* ------------------------------------------ lifetimes of an ensemble
InitL ==
    /\ PRIME_MOD \in Primes
    /\ k_val \in 1..MaxK
    /\ n_init = NoArray
    /\ EnsemblesIdle
    /\ results = <<>>
    /\ CallsIdle

NextL ==
    \/ TransientRaise
    \/ TransientStart
    \/ TransientStep
    \/ TransientReturn

SpecL == InitL /\ [][NextL]_vars

\* ------------------------------------------- lifetimes, sample by sample
InitC ==
    /\ PRIME_MOD \in Primes
    /\ k_val \in 1..MaxK
    /\ n_init = NoArray
    /\ EnsemblesIdle
    /\ results = <<>>
    /\ CallsIdle

NextC ==
    \/ CycleRaise
    \/ CycleStart
    \/ CycleStep
    \/ CycleAppend
    \/ CycleReturn

SpecC == InitC /\ [][NextC]_vars

\* ----- window_persistence_verifier.py: the persistence test, the regional
\* test and the boundary test in the order of run_verification_suite, and
\* the initialisation of theorem_verifier.py.  The ensemble is drawn with
\* all members on one fiber, every fiber of the window in turn.
InitB ==
    /\ PRIME_MOD \in Primes
    /\ k_val \in 1..MaxK
    /\ n_init \in IF limit < 1
                  THEN {NoArray}
                  ELSE {n \in [Members -> randint(1, Min(limit + 1, 10^9))] :
                           \A i, j \in Members : n[i] = n[j]}
    /\ EnsemblesIdle
    /\ results = <<>>
    /\ CallsIdle

NextB ==
    \/ PersistenceClosed
    \/ PersistenceStart
    \/ PersistenceStep
    \/ PersistenceReturn
    \/ InvarianceClosed
    \/ InvarianceStart
    \/ RegionalStart
    \/ RegionalSkip
    \/ RegionalSample
    \/ RegionalRun
    \/ RegionalReturn
    \/ VerifyBoundaryPoints

SpecB == InitB /\ [][NextB]_vars

\* ------------------------------------------------- the survival curve
\* generate_survival_curve at a small modulus and at the modulus of the
\* scripts
InitS ==
    /\ PRIME_MOD \in Primes \cup {PRIME_MOD_VALUE}
    /\ k_val \in 1..MaxK
    /\ n_init = NoArray
    /\ EnsemblesIdle
    /\ results = <<>>
    /\ CallsIdle

NextS ==
    \/ CurveRaise
    \/ CurveStart
    \/ CurveStep
    \/ CurveReturn

SpecS == InitS /\ [][NextS]_vars

\* ------------------------------------------- the order of the return map
\* analyze_return_map_order at a small modulus and at the modulus of the
\* scripts
InitR ==
    /\ PRIME_MOD \in Primes \cup {PRIME_MOD_VALUE}
    /\ k_val \in 1..MaxK
    /\ n_init = NoArray
    /\ EnsemblesIdle
    /\ results = <<>>
    /\ CallsIdle

NextR ==
    \/ OrderStart
    \/ OrderStep
    \/ OrderNone

SpecR == InitR /\ [][NextR]_vars

\* ================================================================ claims
\* the arrays of a loop exist once it has passed its window check
RanP == pcP /= "start" /\ wP /= NoArray

RanI == pcI /= "start" /\ wI /= NoArray

SteppedP == pcP = "loop" /\ stepP' = stepP + 1

SteppedI == pcI = "loop" /\ stepI' = stepI + 1

\* the steps recorded in the trajectory of result r
StepsOf(r) == DOMAIN r.trajectory.step_type

\* K = 4, more generally K congruent to 4 modulo a prime p > K
K4Condition == k_val % PRIME_MOD = 4 % PRIME_MOD /\ PRIME_MOD > k_val

\* C1: with K = 4 (K = 4 mod p, p > K) every trajectory started at base 1
\* with a fiber of the safe window is alive, base in {1,2,4}, after every
\* step of every loop; no trajectory is ever reported dead.
C1_K4NeverDies ==
    K4Condition =>
        /\ RanP => \A i \in Members : alive_maskP[i] /\ wP[i] \in {1, 2, 4}
        /\ RanI => \A i \in Members : alive_maskI[i] /\ wI[i] \in {1, 2, 4}
        /\ pcP = "returned" => rateP.num = 100 * rateP.den
        /\ pcI = "returned" => rateI.num = 100 * rateI.den
        /\ \A j \in DOMAIN results :
              /\ results[j].survived
              /\ results[j].exit_step = -1
              /\ \A t \in DOMAIN results[j].trajectory.w :
                    results[j].trajectory.w[t] \in {1, 2, 4}

\* K = 4, both ensembles ran all their steps from the upper end of the
\* window and every trajectory of the sample was analysed
C1_Witness ==
    /\ k_val = 4
    /\ pcP = "returned" /\ stepP = TEST_STEPS
    /\ pcI = "returned" /\ stepI = TEST_STEPS
    /\ Len(results) = BATCH_SIZE
    /\ \E i \in Members : n_init[i] = limit /\ alive_maskP[i] /\ alive_maskI[i]

\* C2: with K = 4 the state after 3j steps is the initial state (1, n0), and
\* the fiber is then inside the window.
C2_K4ThreeStepReturn ==
    k_val = 4 =>
        /\ (RanP /\ stepP % 3 = 0) =>
              \A i \in Members :
                  wP[i] = 1 /\ nP[i] = n_init[i] /\ nP[i] <= limit
        /\ (RanI /\ stepI % 3 = 0) =>
              \A i \in Members :
                  wI[i] = 1 /\ nI[i] = n_init[i] /\ nI[i] <= limit
        /\ \A j \in DOMAIN results :
              \A t \in DOMAIN results[j].trajectory.w :
                  (t - 1) % 3 = 0 =>
                      /\ results[j].trajectory.w[t] = 1
                      /\ results[j].trajectory.n[t] = n_init[j]
                      /\ results[j].trajectory.in_window[t]

\* K = 4, two full cycles done, from a fiber whose multiple 4n exceeds p/2
C2_Witness ==
    /\ k_val = 4
    /\ RanP /\ stepP = 6
    /\ RanI /\ stepI = 3
    /\ \E i \in Members :
          /\ 8 * n_init[i] > PRIME_MOD
          /\ nP[i] = n_init[i]
    /\ \E j \in DOMAIN results : Len(results[j].trajectory.w) >= 7

\* C3: an odd step of an alive member sends (w, n) to (3w + 1 + c, r) where
\* K*n = c*p + r and 0 <= r < p: quotient and remainder of the unreduced
\* product.
OddRecordsOK ==
    \A j \in DOMAIN results :
        LET tr == results[j].trajectory
        IN  \A t \in StepsOf(results[j]) :
              /\ (tr.step_type[t] = "odd") <=> (tr.w[t] % 2 = 1)
              /\ tr.step_type[t] = "odd" =>
                    /\ tr.n[t + 1] \in 0..(PRIME_MOD - 1)
                    /\ tr.carry[t] = tr.w[t + 1] - 3 * tr.w[t] - 1
                    /\ k_val * tr.n[t] = tr.carry[t] * PRIME_MOD + tr.n[t + 1]

C3_OddStep ==
    [][ /\ SteppedP =>
              \A i \in Members :
                  (alive_maskP[i] /\ wP[i] % 2 = 1) =>
                      /\ nP'[i] \in 0..(PRIME_MOD - 1)
                      /\ k_val * nP[i]
                            = (wP'[i] - 3 * wP[i] - 1) * PRIME_MOD + nP'[i]
        /\ SteppedI =>
              \A i \in Members :
                  (alive_maskI[i] /\ wI[i] % 2 = 1) =>
                      /\ nI'[i] \in 0..(PRIME_MOD - 1)
                      /\ k_val * nI[i]
                            = (wI'[i] - 3 * wI[i] - 1) * PRIME_MOD + nI'[i]
        /\ OddRecordsOK'
      ]_vars

\* an odd step with a non-zero carry has been taken in each loop
C3_Witness ==
    /\ RanP /\ \E i \in Members : wP[i] >= 5
    /\ RanI /\ stepI = 4 /\ \E i \in Members : ~alive_maskI[i]
    /\ \E j \in DOMAIN results :
          \E t \in StepsOf(results[j]) : results[j].trajectory.carry[t] >= 1

\* C4: an even step of an alive member halves the base and sends the fiber
\* f to f * 2^(p-2) mod p; doubling the new fiber modulo p gives f back.
EvenRecordsOK ==
    \A j \in DOMAIN results :
        LET tr == results[j].trajectory
        IN  \A t \in StepsOf(results[j]) :
              tr.step_type[t] = "even" =>
                  /\ tr.w[t] % 2 = 0
                  /\ 2 * tr.w[t + 1] = tr.w[t]
                  /\ tr.carry[t] = 0
                  /\ tr.n[t + 1] \in 0..(PRIME_MOD - 1)
                  /\ (2 * tr.n[t + 1]) % PRIME_MOD = tr.n[t]

C4_EvenStep ==
    [][ /\ SteppedP =>
              \A i \in Members :
                  (alive_maskP[i] /\ wP[i] % 2 = 0) =>
                      /\ 2 * wP'[i] = wP[i]
                      /\ nP'[i] = (nP[i] * ((2 ^ (PRIME_MOD - 2)) % PRIME_MOD))
                                      % PRIME_MOD
                      /\ (2 * nP'[i]) % PRIME_MOD = nP[i]
        /\ SteppedI =>
              \A i \in Members :
                  (alive_maskI[i] /\ wI[i] % 2 = 0) =>
                      /\ 2 * wI'[i] = wI[i]
                      /\ nI'[i] = (nI[i] * ((2 ^ (PRIME_MOD - 2)) % PRIME_MOD))
                                      % PRIME_MOD
                      /\ (2 * nI'[i]) % PRIME_MOD = nI[i]
        /\ EvenRecordsOK'
      ]_vars

\* an even step has halved an odd fiber, so the new fiber wrapped around p
C4_Witness ==
    /\ RanP /\ stepP = 2
    /\ \E i \in Members :
          alive_maskP[i] /\ wP[i] = 2 /\ 2 * nP[i] > PRIME_MOD
    /\ RanI /\ stepI = 3
    /\ \E j \in DOMAIN results :
          \E t \in StepsOf(results[j]) :
              /\ results[j].trajectory.step_type[t] = "even"
              /\ 2 * results[j].trajectory.n[t + 1] > PRIME_MOD

\* C5: a step kills an alive member exactly when the member is at base 1
\* and the carry of its odd step is at least 1 (K*n >= p); even steps and
\* carry-free odd steps keep it alive.
DeathRecordsOK ==
    \A j \in DOMAIN results :
        LET tr == results[j].trajectory
        IN  /\ \A t \in StepsOf(results[j]) :
                  (tr.w[t + 1] \notin {1, 2, 4})
                      <=> (tr.w[t] = 1 /\ k_val * tr.n[t] >= PRIME_MOD)
            /\ ~results[j].survived
                  <=> \E t \in StepsOf(results[j]) :
                          tr.w[t] = 1 /\ k_val * tr.n[t] >= PRIME_MOD

C5_CarryOnlyDeath ==
    [][ /\ SteppedP =>
              \A i \in Members :
                  alive_maskP[i] =>
                      /\ (wP'[i] \notin {1, 2, 4})
                            <=> (wP[i] = 1 /\ k_val * nP[i] >= PRIME_MOD)
                      /\ ~alive_maskP'[i] <=> (wP'[i] \notin {1, 2, 4})
        /\ SteppedI =>
              \A i \in Members :
                  alive_maskI[i] =>
                      /\ (wI'[i] \notin {1, 2, 4})
                            <=> (wI[i] = 1 /\ k_val * nI[i] >= PRIME_MOD)
                      /\ ~alive_maskI'[i] <=> (wI'[i] \notin {1, 2, 4})
        /\ DeathRecordsOK'
      ]_vars

\* one member was killed by a carry while another went on through even and
\* carry-free odd steps
C5_Witness ==
    /\ RanP /\ stepP = TEST_STEPS
    /\ \E i, j \in Members : ~alive_maskP[i] /\ alive_maskP[j]
    /\ RanI /\ \E i \in Members : ~alive_maskI[i]
    /\ \E j \in DOMAIN results : ~results[j].survived

\* C6: the window limit is exactly the carry-free range: for every fiber n
\* of Z_p the odd-step carry (K*n) div p is 0 iff n <= floor((p-1)/K); the
\* carry and in_window lists of every recorded trajectory agree with it.
C6_WindowIsCarryFree ==
    /\ \A n \in 0..(PRIME_MOD - 1) : (carry(k_val, n) = 0) <=> (n <= limit)
    /\ \A j \in DOMAIN results :
          LET tr == results[j].trajectory
          IN  \A t \in StepsOf(results[j]) :
                tr.step_type[t] = "odd" =>
                    ((tr.carry[t] = 0) <=> tr.in_window[t])

\* a trajectory started at the last carry-free fiber met a fiber outside
\* the window at a later odd step and got a carry there
C6_Witness ==
    \E j \in DOMAIN results :
        LET tr == results[j].trajectory
        IN  /\ tr.n[1] = limit /\ tr.carry[1] = 0
            /\ \E t \in StepsOf(results[j]) :
                  /\ tr.step_type[t] = "odd"
                  /\ tr.carry[t] >= 1
                  /\ ~tr.in_window[t]

\* C7: extinction is absorbing: a member whose alive flag is false keeps it
\* false at every later step of the loop, whatever its base becomes.
C7_DeadStaysDead ==
    [][ /\ (RanP /\ RanP') =>
              \A i \in Members : ~alive_maskP[i] => ~alive_maskP'[i]
        /\ (RanI /\ RanI') =>
              \A i \in Members : ~alive_maskI[i] => ~alive_maskI'[i]
      ]_vars

\* a dead member of verify_window_invariance whose base is back in {1,2,4},
\* and a dead member of verify_window_persistence after the last step
C7_Witness ==
    /\ RanI /\ stepI = TEST_STEPS
    /\ \E i \in Members : ~alive_maskI[i] /\ wI[i] \in {1, 2, 4}
    /\ RanP /\ stepP = TEST_STEPS
    /\ \E i \in Members : ~alive_maskP[i]

\* C8 as stated: in every ensemble loop, verify_window_invariance included,
\* a step leaves the base and the fiber of a dead member unchanged.
C8_DeadFrozenEverywhere ==
    [][ /\ SteppedP =>
              \A i \in Members :
                  ~alive_maskP[i] => (wP'[i] = wP[i] /\ nP'[i] = nP[i])
        /\ SteppedI =>
              \A i \in Members :
                  ~alive_maskI[i] => (wI'[i] = wI[i] /\ nI'[i] = nI[i])
      ]_vars

\* C8 amended: verify_window_persistence leaves the base and the fiber of a
\* dead member unchanged; verify_window_invariance keeps a dead member dead
\* but sets its base to 1 (clamped to 2, then halved) and halves its fiber
\* modulo p at every later step.
C8_DeadFrozenWhenMasked ==
    [][ /\ SteppedP =>
              \A i \in Members :
                  ~alive_maskP[i] => (wP'[i] = wP[i] /\ nP'[i] = nP[i])
        /\ SteppedI =>
              \A i \in Members :
                  ~alive_maskI[i] =>
                      /\ ~alive_maskI'[i]
                      /\ wI'[i] = 1
                      /\ nI'[i] \in 0..(PRIME_MOD - 1)
                      /\ (2 * nI'[i]) % PRIME_MOD = nI[i]
      ]_vars

\* both loops have stepped dead members: one frozen at its odd exit base,
\* one rewritten to base 1 with a fiber that is no longer the one it died
\* with
C8_Witness ==
    /\ RanP /\ stepP = TEST_STEPS
    /\ \E i \in Members : ~alive_maskP[i] /\ wP[i] >= 5 /\ wP[i] % 2 = 1
    /\ RanI /\ stepI = TEST_STEPS
    /\ \E i \in Members :
          /\ ~alive_maskI[i] /\ wI[i] = 1
          /\ ~alive_maskP[i] /\ nI[i] /= nP[i]

\* the scalar loop's verdict on the first t steps of result r
ScalarAliveAfter(r, t) ==
    \A s \in StepsOf(r) : s <= t => r.trajectory.w[s + 1] \in {1, 2, 4}

\* the scalar loop ran at least t steps, or stopped because it was expelled
ScalarCovers(r, t) == t <= Len(r.trajectory.step_type) \/ ~r.survived

\* C9: member i of the vectorised loop has, after each step, the alive flag
\* the scalar loop gives the initial fiber n_init[i] alone, and while alive
\* the scalar loop's base and fiber, whatever the other members are.
C9_EnsembleMatchesScalar ==
    RanP =>
        \A i \in Members :
            (i \in DOMAIN results /\ ScalarCovers(results[i], stepP)) =>
                /\ alive_maskP[i] <=> ScalarAliveAfter(results[i], stepP)
                /\ alive_maskP[i] =>
                      /\ wP[i] = results[i].trajectory.w[stepP + 1]
                      /\ nP[i] = results[i].trajectory.n[stepP + 1]
                /\ (pcP = "returned" /\ Len(results) = BATCH_SIZE) =>
                      (alive_maskP[i] <=> results[i].survived)

\* two different fibers, one expelled and one still alive after the same
\* number of steps, in the ensemble as in the scalar runs
C9_Witness ==
    /\ RanP /\ stepP >= 4 /\ stepP <= MAX_STEPS
    /\ Len(results) = BATCH_SIZE
    /\ \E i, j \in Members :
          /\ n_init[i] /= n_init[j]
          /\ alive_maskP[i] /\ ~alive_maskP[j]
          /\ ~results[j].survived

\* the state after three steps is the initial state again
ReturnedP(i) == wP[i] = 1 /\ nP[i] = n_init[i]

ReturnedT(j) ==
    /\ Len(results[j].trajectory.w) >= 4
    /\ results[j].trajectory.w[4] = 1
    /\ results[j].trajectory.n[4] = n_init[j]

\* C10: for a prime p > 3 and K in 1..p-1 the cycle multiplier K*inv4 mod p
\* is 1 iff K = 4, and the three-step map returns a window point to itself
\* iff K = 4.
C10_K4UniqueIdentity ==
    PRIME_MOD > 3 =>
        /\ \A k \in 1..(PRIME_MOD - 1) : (lambda_val(k) = 1) <=> (k = 4)
        /\ k_val \in 1..(PRIME_MOD - 1) =>
              /\ \A n \in 1..limit : (return_map(k_val, n) = n) <=> (k_val = 4)
              /\ (RanP /\ stepP = 3) =>
                    \A i \in Members : ReturnedP(i) <=> (k_val = 4)
              /\ \A j \in DOMAIN results : ReturnedT(j) <=> (k_val = 4)

\* K /= 4: three steps brought a window point back to base 1 but to a
\* different fiber
C10_Witness ==
    /\ PRIME_MOD > 3 /\ k_val \in 1..(PRIME_MOD - 1) /\ k_val /= 4
    /\ RanP /\ stepP = 3
    /\ \E i \in Members : wP[i] = 1 /\ alive_maskP[i] /\ nP[i] /= n_init[i]
    /\ \E j \in DOMAIN results : ~ReturnedT(j)

C12_FiberZeroFixed ==
    (traj.pc /= "start" /\ traj.n_init = 0) =>
        /\ traj.n = 0
        /\ traj.w \in {1, 2, 4}
        /\ \A t \in DOMAIN traj.trajectory.n : traj.trajectory.n[t] = 0
        /\ \A t \in DOMAIN traj.trajectory.carry : traj.trajectory.carry[t] = 0
        /\ \A t \in DOMAIN traj.trajectory.w :
              traj.trajectory.w[t] \in {1, 2, 4}
        /\ traj.pc = "returned" => (traj.survived /\ traj.exit_step = -1)

\* 200 steps from fiber 0 at the modulus of the scripts with K = 5, a factor
\* that expels every fiber of its window but 0, and odd steps were taken
C12_Witness ==
    /\ PRIME_MOD = PRIME_MOD_VALUE /\ k_val = 5
    /\ traj.pc = "returned" /\ traj.n_init = 0 /\ traj.max_steps = 200
    /\ Len(traj.trajectory.n) = 201
    /\ traj.trajectory.step_type[199] = "odd"

\* C13: with p = 1,000,000,007 and K = 4 the window limit is 250,000,001;
\* from (1, 250,000,000) the state after 3 steps is (1, 250,000,000) again
\* and the 60-step run returns survived = True.
C13_K4Scenario ==
    (PRIME_MOD = PRIME_MOD_VALUE /\ k_val = 4) =>
        /\ limit = 250000001
        /\ (traj.pc /= "start" /\ traj.n_init = 250000000) =>
              /\ traj.trajectory.in_window[1]
              /\ Len(traj.trajectory.w) >= 4 =>
                    /\ traj.trajectory.w[4] = 1
                    /\ traj.trajectory.n[4] = 250000000
              /\ (traj.pc = "returned" /\ traj.max_steps = 60) =>
                    /\ traj.survived
                    /\ Len(traj.trajectory.step_type) = 60

\* the 60-step run from fiber 250,000,000 has returned, through the fibers
\* 1,000,000,000 and 500,000,000
C13_Witness ==
    /\ PRIME_MOD = PRIME_MOD_VALUE /\ k_val = 4
    /\ traj.pc = "returned" /\ traj.n_init = 250000000 /\ traj.max_steps = 60
    /\ traj.trajectory.n[2] = 1000000000
    /\ traj.trajectory.n[3] = 500000000
    /\ traj.survived

\* C14: with p = 1,000,000,007 and K = 5 the window limit is 200,000,001;
\* the 200-step run from (1, 100,000,000) returns survived = False, and it is
\* expelled in the iteration of index 12, its 13th step.
C14_K5Scenario ==
    (PRIME_MOD = PRIME_MOD_VALUE /\ k_val = 5) =>
        /\ limit = 200000001
        /\ (traj.pc /= "start" /\ traj.n_init = 100000000
                /\ traj.max_steps = 200) =>
              /\ traj.trajectory.in_window[1]
              /\ traj.step <= 12
              /\ traj.pc = "returned" =>
                    /\ ~traj.survived
                    /\ traj.exit_step = 12
                    /\ traj.exit_step < 200

\* the 200-step run from fiber 100,000,000 has returned, expelled by a carry
C14_Witness ==
    /\ PRIME_MOD = PRIME_MOD_VALUE /\ k_val = 5
    /\ traj.pc = "returned" /\ traj.n_init = 100000000
    /\ traj.max_steps = 200
    /\ ~traj.survived
    /\ traj.trajectory.carry[Len(traj.trajectory.carry)] >= 1

\* C19: the fiber of every trajectory, alive or dead, is in [0, p-1] after
\* every step of every loop, and both fiber updates map [0, p-1] into
\* itself for every K >= 1.
C19_FiberInField ==
    /\ k_val >= 1 =>
          \A n \in 0..(PRIME_MOD - 1) :
              /\ odd_n(k_val, n) \in 0..(PRIME_MOD - 1)
              /\ even_n(n) \in 0..(PRIME_MOD - 1)
    /\ RanP => \A i \in Members : nP[i] \in 0..(PRIME_MOD - 1)
    /\ RanI => \A i \in Members : nI[i] \in 0..(PRIME_MOD - 1)
    /\ \A j \in DOMAIN results :
          \A t \in DOMAIN results[j].trajectory.n :
              results[j].trajectory.n[t] \in 0..(PRIME_MOD - 1)

\* both loops ran to the end with a dead member, whose fiber the clamped
\* loop went on halving, and an odd step wrapped a fiber around p
C19_Witness ==
    /\ RanP /\ stepP = TEST_STEPS /\ RanI /\ stepI = TEST_STEPS
    /\ \E i \in Members :
          /\ ~alive_maskP[i] /\ ~alive_maskI[i]
          /\ nI[i] /= nP[i]
    /\ Len(results) = BATCH_SIZE
    /\ \E j \in DOMAIN results :
          \E t \in StepsOf(results[j]) : results[j].trajectory.carry[t] >= 1

\* C21: the closed form of analyze_return_map_distribution is the step rule
\* run three times: a trajectory started at base 1 on a fiber of the window
\* [1, limit] is back at base 1 after its third step, on the fiber
\* (n * K * inv4) mod p, for every K >= 1.
C21_ReturnMapIsThreeSteps ==
    (traj.pc /= "start" /\ traj.n_init \in 1..traj.limit) =>
        /\ traj.pc = "returned" => Len(traj.trajectory.n) >= 4
        /\ Len(traj.trajectory.n) >= 4 =>
              /\ traj.trajectory.w[4] = 1
              /\ traj.trajectory.n[4] = return_map(k_val, traj.n_init)

\* three steps were run at the modulus of the scripts from a window fiber
\* that the return map moves
C21_Witness ==
    /\ traj.pc = "returned"
    /\ PRIME_MOD = PRIME_MOD_VALUE
    /\ k_val = 5
    /\ traj.n_init = traj.limit
    /\ Len(traj.trajectory.n) >= 4
    /\ traj.trajectory.n[4] /= traj.n_init
    /\ traj.trajectory.n[4] = return_map(k_val, traj.n_init)

\* the base of the cycle 1 -> 4 -> 2 -> 1 that precedes step t
cycle_base(t) == CASE t % 3 = 0 -> 1 [] t % 3 = 1 -> 4 [] OTHER -> 2

\* C22: while a trajectory started at base 1 is alive its base is fixed by
\* the step index: before step t it is 1, 4 or 2 as t mod 3 is 0, 1 or 2.
\* Odd steps, and with them deaths, happen only at step indices divisible
\* by 3.  Stated for both ensemble loops and for the recorded trajectories.
C22_BaseFollowsStepIndex ==
    [][ /\ RanP' => \A i \in Members :
              alive_maskP'[i] => wP'[i] = cycle_base(stepP')
        /\ RanI' => \A i \in Members :
              alive_maskI'[i] => wI'[i] = cycle_base(stepI')
        /\ SteppedP => \A i \in Members :
              (alive_maskP[i] /\ (wP[i] % 2 = 1 \/ ~alive_maskP'[i]))
                  => stepP % 3 = 0
        /\ SteppedI => \A i \in Members :
              (alive_maskI[i] /\ (wI[i] % 2 = 1 \/ ~alive_maskI'[i]))
                  => stepI % 3 = 0
        /\ \A j \in DOMAIN results' :
              LET r == results'[j]
              IN  /\ \A t \in StepsOf(r) :
                        /\ r.trajectory.w[t] = cycle_base(t - 1)
                        /\ r.trajectory.step_type[t] = "odd"
                              => (t - 1) % 3 = 0
                  /\ ~r.survived => r.exit_step % 3 = 0
      ]_vars

\* the persistence loop ended with a member that lived through two returns
\* and died at step index 6, and a member still alive
C22_Witness ==
    /\ pcP = "returned"
    /\ stepP = TEST_STEPS
    /\ \E i \in Members : alive_maskP[i] /\ wP[i] = cycle_base(TEST_STEPS)
    /\ \E i \in Members : ~alive_maskP[i]
    /\ \E j \in DOMAIN results :
          ~results[j].survived /\ results[j].exit_step = 6

\* C23: in both ensemble loops the base of every member is within
\* [1, K + 3] after every step: an alive member is in {1,2,4}, a member that
\* dies gets 4 + carry with 1 <= carry <= K - 1, and the base of a dead
\* member never grows afterwards.
C23_BaseBounded ==
    [][ /\ RanP' => \A i \in Members :
              /\ wP'[i] \in 1..(k_val + 3)
              /\ alive_maskP'[i] => in_cycle(wP'[i])
        /\ RanI' => \A i \in Members :
              /\ wI'[i] \in 1..(k_val + 3)
              /\ alive_maskI'[i] => in_cycle(wI'[i])
        /\ SteppedP => \A i \in Members :
              /\ (alive_maskP[i] /\ ~alive_maskP'[i]) =>
                    /\ wP'[i] = 4 + carry(k_val, nP[i])
                    /\ carry(k_val, nP[i]) \in 1..(k_val - 1)
              /\ ~alive_maskP[i] => wP'[i] <= wP[i]
        /\ SteppedI => \A i \in Members :
              /\ (alive_maskI[i] /\ ~alive_maskI'[i]) =>
                    /\ wI'[i] = 4 + carry(k_val, nI[i])
                    /\ carry(k_val, nI[i]) \in 1..(k_val - 1)
              /\ ~alive_maskI[i] => wI'[i] <= wI[i]
      ]_vars

\* both loops ended with a dead member: frozen above 4 in the persistence
\* loop, clamped and halved to 1 in the invariance loop
C23_Witness ==
    /\ pcP = "returned" /\ stepP = TEST_STEPS
    /\ pcI = "returned" /\ stepI = TEST_STEPS
    /\ \E i \in Members :
          /\ ~alive_maskP[i] /\ wP[i] > 5
          /\ ~alive_maskI[i] /\ wI[i] = 1

\* C24: for the same K, the same initial fibers and the same number of
\* steps the alive mask of verify_window_invariance equals the alive mask of
\* verify_window_persistence.
C24_MasksAgree ==
    (RanP /\ RanI /\ stepP = stepI) => alive_maskP = alive_maskI

\* both loops ran all steps on the same fibers and ended with one member
\* alive and one dead; the dead member is back at a base of the cycle in
\* verify_window_invariance
C24_Witness ==
    /\ pcP = "returned" /\ pcI = "returned"
    /\ stepP = TEST_STEPS /\ stepI = TEST_STEPS
    /\ nP /= NoArray /\ nI /= NoArray
    /\ \E i \in Members : alive_maskP[i] /\ alive_maskI[i]
    /\ \E i \in Members :
          ~alive_maskP[i] /\ ~alive_maskI[i] /\ in_cycle(wI[i])

C26_ScalarVerdictIsAliveFlag ==
    boundary.pc = "returned" =>
        \A j \in DOMAIN boundary.results :
            boundary.results[j].survived =
                regional_loop(k_val, inv2,
                              [w |-> <<boundary.points[j].w>>,
                               n |-> <<boundary.points[j].n>>,
                               alive |-> <<TRUE>>], 0).alive[1]

\* C28: the regional sampler divides the whole window: when limit >= 1 the
\* regions it samples are inside [1, limit], region i + 1 starts at the end
\* of region i plus 1 (so they are pairwise disjoint), and together they
\* cover every integer of [1, limit]; no region, a one-point region
\* included, is skipped.
C28_RegionsCoverWindow ==
    (regional.pc = "returned" /\ limit >= 1) =>
        LET R == regional.results
        IN  /\ \A j \in DOMAIN R : R[j].start >= 1 /\ R[j].end <= limit
            /\ \A j \in 1..(Len(R) - 1) : R[j + 1].start = R[j].end + 1
            /\ UNION {R[j].start..R[j].end : j \in DOMAIN R} = 1..limit

\* a <= b for two rates [num, den] with positive denominators
rate_leq(a, b) == a.num * b.den <= b.num * a.den

\* C27: generate_survival_curve returns a history that starts at 100.0,
\* never increases, has at most max_steps + 1 entries, and contains 0 only
\* as its last entry.
C27_SurvivalCurveShape ==
    curve.pc = "returned" =>
        LET h == curve.survival_history
        IN  /\ Len(h) >= 1
            /\ h[1] = [num |-> 100, den |-> 1]
            /\ Len(h) <= curve.max_steps + 1
            /\ \A j \in 1..(Len(h) - 1) : rate_leq(h[j + 1], h[j])
            /\ \A j \in 1..(Len(h) - 1) : h[j].num /= 0

\* a curve of two members that stayed at 100 for three steps and ended at
\* 0, by the break, before max_steps
C27_Witness ==
    /\ curve.pc = "returned"
    /\ LET h == curve.survival_history
       IN  /\ Len(h) < curve.max_steps + 1
           /\ h[Len(h)].num = 0
           /\ h[Len(h) - 1] = [num |-> 200, den |-> 2]
           /\ Len(h) >= 5

\* C29: an initialiser documented as sampling from the safe window draws
\* from the whole window: the fibers it can draw are exactly
\* [1, floor((p-1)/K)], the cap of min(limit + 1, cap) excludes no point of
\* the window.  Stated for the draw of generate_survival_curve (cap 10^6):
\* the ends 1 and limit can be drawn, 0 and limit + 1 cannot.
C29_DrawsWholeWindow ==
    curve.pc \in {"loop", "break", "returned"} =>
        /\ 1 \in curve_fibers
        /\ curve.limit \in curve_fibers
        /\ 0 \notin curve_fibers
        /\ (curve.limit + 1) \notin curve_fibers

\* the exponents m of [1, max_order] with lam^m = 1 modulo p
unit_powers(lam, max_order) ==
    {m \in 1..max_order : pow(lam, m, PRIME_MOD) = 1}

\* C30: analyze_return_map_order(K, max_order) returns the multiplicative
\* order of (K * inv4) mod p whenever that order is at most max_order,
\* returns 1 exactly when K is congruent to 4 modulo p, and returns None
\* when no m of [1, max_order] has (K * inv4)^m = 1.
C30_OrderOfReturnMap ==
    order.pc = "returned" =>
        LET lam == mul_mod(k_val % PRIME_MOD, inv4, PRIME_MOD)
            S == unit_powers(lam, order.max_order)
        IN  /\ S = {} => order.result = None
            /\ S /= {} => /\ order.result \in S
                          /\ \A m \in S : order.result <= m
            /\ (order.result = 1) <=> (k_val % PRIME_MOD = 4 % PRIME_MOD)

\* an order above 1 was found by the loop, and it is the order of K / 4
C30_Witness ==
    /\ order.pc = "returned"
    /\ order.result /= None
    /\ order.result > 2
    /\ order.result = order.max_order
    /\ pow(order.multiplier, order.result, PRIME_MOD) = 1

\* C15: a call with K <= 0 ends in an error before any trajectory is
\* initialised or stepped; it never returns a survival rate.
C15_InvalidKFailsFast ==
    k_val <= 0 =>
        /\ pcP \in {"start", "raised"}
        /\ pcI \in {"start", "raised"}
        /\ wP = NoArray /\ wI = NoArray

\* C17: in test_transient_vs_persistent a member's lifetime never decreases
\* from one step to the next, does not change after the step that killed
\* the member, is the number of steps taken up to and including the killing
\* step for a member that dies, and is TEST_STEPS for a member alive at the
\* end.
C17_LifetimeMonotonicFinal ==
    [][/\ (tvp.pc = "loop" /\ tvp'.pc = "loop") =>
            \A i \in DOMAIN tvp.w :
                /\ tvp'.lifetimes[i] >= tvp.lifetimes[i]
                /\ ~tvp.alive[i] => tvp'.lifetimes[i] = tvp.lifetimes[i]
                /\ (tvp.alive[i] /\ ~tvp'.alive[i]) =>
                       tvp'.lifetimes[i] = tvp'.step
                /\ tvp'.alive[i] => tvp'.lifetimes[i] = tvp'.step
       /\ (tvp.pc = "loop" /\ tvp'.pc = "returned") =>
            /\ tvp'.lifetimes = tvp.lifetimes
            /\ \A i \in DOMAIN tvp.w :
                   tvp'.alive[i] => tvp'.lifetimes[i] = TEST_STEPS]_vars

\* the call returned with a member killed before the last step and a member
\* alive at the end
C17_Witness ==
    /\ tvp.pc = "returned"
    /\ \E i, j \in DOMAIN tvp.w :
          /\ ~tvp.alive[i] /\ tvp.lifetimes[i] \in 1..(TEST_STEPS - 2)
          /\ tvp.alive[j] /\ tvp.lifetimes[j] = TEST_STEPS

\* C18: the lifetime analyze_cycle_structure records for a sample is the
\* number of steps run, 200, when the trajectory stayed in {1,2,4} through
\* the whole run, and the number of steps up to and including the expelling
\* step when it was expelled.
C18_LifetimeIsStepCount ==
    (/\ cycle.pc = "loop"
     /\ cycle.step >= 1
     /\ cycle.step = CYCLE_STEPS \/ ~in_cycle(cycle.w)) =>
        cycle.lifetime = cycle.step

\* C16: when floor((p-1)/K) < 1 no operation that draws fibers from the
\* window returns a result, and none simulates a trajectory (from fiber 0
\* or from any fiber outside [1, limit]): each ends in an error.
C16_ClosedWindowIsAnError ==
    limit < 1 =>
        /\ pcP /= "returned"
        /\ pcI /= "returned"
        /\ regional.pc /= "returned"
        /\ boundary.pc /= "returned"

\* C20: every trajectory is created with base 1 and, when the window is
\* open, with a fiber of [1, limit]: the arrays of the two ensemble
\* functions, the samples of every region, and the percentile points after
\* their clamps.
C20_CreatedInWindow ==
    /\ (pcP = "loop" /\ stepP = 0) =>
          \A i \in Members : wP[i] = 1 /\ nP[i] \in 1..limit
    /\ (pcI = "loop" /\ stepI = 0) =>
          \A i \in Members : wI[i] = 1 /\ nI[i] \in 1..limit
    /\ regional.pc = "run" =>
          \A i \in DOMAIN regional.n_samples :
              /\ regional.w_samples[i] = 1
              /\ regional.n_samples[i] \in 1..limit
    /\ boundary.pc = "returned" =>
          \A j \in DOMAIN boundary.points :
              /\ boundary.points[j].w = 1
              /\ limit >= 1 => boundary.points[j].n \in 1..limit

\* all creation sites have acted on an open window: both ensembles, a
\* region, and percentile points of which one was clamped up to 1
C20_Witness ==
    /\ limit >= 2
    /\ pcP = "returned" /\ pcI = "loop"
    /\ regional.pc = "returned" /\ Len(regional.results) >= 2
    /\ boundary.pc = "returned"
    /\ \E j \in DOMAIN boundary.results :
          boundary.results[j].n_value = 0 /\ boundary.points[j].n = 1
    /\ \E j \in DOMAIN boundary.results : boundary.results[j].n_value >= 2
====
